---- MODULE Spec2Model ----
(***************************************************************************)
(* Model of the Property Eye browser client.                               *)
(*                                                                         *)
(* Session store: AuthProvider (src/src/context/AuthContext.tsx), with the *)
(* ProtectedRoute guard (src/unnamed/part_000) and the Login page caller   *)
(* (src/unnamed/part_003).  The provider hands login and logout to every   *)
(* consumer of the context, so both are callable at any time after the     *)
(* provider exists, also while the mount effect's profile request is still *)
(* in flight.                                                              *)
(*                                                                         *)
(* Authenticated calls: verifyMutation of the Reports page                 *)
(* (src/src/pages/Upload.tsx).                                             *)
(*                                                                         *)
(* Pages behind ProtectedRoute (src/src/pages/Upload.tsx): the upload      *)
(* wizard with its auto-mapping (SpecUpload, SpecAutoMap), the Reports     *)
(* page with its high-confidence filter (SpecReports, SpecSelect) and the  *)
(* IntegrationsModal (SpecImport).  SpecLive is Spec with the scheduling   *)
(* of the mount effect and of the profile request.                         *)
(***************************************************************************)
EXTENDS Integers, FiniteSets, Sequences, TLC

(***************************************************************************)
(* Bounds of the model.                                                    *)
(***************************************************************************)
\* largest expiry claim (seconds) a stored token carries
MaxExp == 3
\* logout() calls that may be awaiting the server at the same time
MaxLogouts == 2

(***************************************************************************)
(* Program constants.                                                      *)
(***************************************************************************)
\* decoded.exp * 1000: seconds to milliseconds
MsPerSec == 1000

(***************************************************************************)
(* Values.                                                                 *)
(***************************************************************************)
\* a missing exp claim (decoded.exp is undefined)
NoExp == -1
\* null token (useState<string | null>(null), localStorage.getItem miss)
NoToken == [ok |-> FALSE, exp |-> NoExp, sub |-> "", agency_name |-> "", raw |-> "null"]
\* null user
NoUser == [agency_id |-> "", agency_name |-> "", sub |-> "", isNull |-> TRUE]

\* agency ids the server knows
AgencyIds == {"a1", "a2"}
\* agency_name claims of a token ("" is an absent claim)
ClaimNames == {"", "Acme"}
\* names the server returns in the login and profile responses
ServerNames == {"Acme Ltd"}
\* Date.now() at the time the mount effect runs, in milliseconds
NowValues == {1000, 2500}

\* a string that jwtDecode rejects
BadToken == [ok |-> FALSE, exp |-> NoExp, sub |-> "", agency_name |-> "", raw |-> "garbage"]
\* strings that jwtDecode accepts, by the claims of their payload
JwtTokens ==
  { [ok |-> TRUE, exp |-> e, sub |-> s, agency_name |-> n, raw |-> "jwt"] :
      e \in {NoExp} \cup (0..MaxExp), s \in {""} \cup AgencyIds, n \in ClaimNames }
\* what the 'token' item of localStorage may hold when the page loads
StoredTokens == {BadToken} \cup JwtTokens
\* access_token of a login response for agency id
IssuedToken(id) == [ok |-> TRUE, exp |-> MaxExp, sub |-> id, agency_name |-> "Acme", raw |-> "jwt"]
\* response.data of GET /auth/me
ServerProfiles == [id : AgencyIds, name : ServerNames]
\* how a request to the remote service can end
ApiOutcomes == {"ok", "AuthError", "RemoteError", "NetworkError"}
ApiFailures == ApiOutcomes \ {"ok"}
\* ids of fraud-report matches
MatchIds == {"m1", "m2"}

\* the keys of localStorage: the fixed key and any other one
StorageKeys == {"token", "other"}

VARIABLES
  localStorage,   \* window.localStorage: key -> item or NoToken
  now,            \* Date.now() seen by the mount effect
  pc,             \* "start" before the mount effect has run, then "mounted"
  user,           \* useState user
  token,          \* useState token
  isLoading,      \* useState isLoading
  storedToken,    \* const storedToken of the mount effect's closure
  mePending,      \* GET /auth/me requests in flight
  meCalls,        \* GET /auth/me requests issued
  logoutPending,  \* logout() calls suspended at await api.post(LOGOUT)
  verifyPending,  \* verifyMutation.isPending
  userFrom,       \* where the current user value comes from
  last,           \* the operation that ran last, with its inputs
  isModalOpen,    \* Upload: useState isModalOpen
  file,           \* Upload: useState file
  headers,        \* Upload: useState headers
  mapping,        \* Upload: useState mapping
  step,           \* Upload: useState step
  uploadStats,    \* Upload: useState uploadStats
  parsePending,   \* Papa.parse calls whose callback has not run yet
  uploads,        \* POST /documents/upload requests in flight
  wlast,          \* the operation of the Upload page that ran last
  amH,            \* a header list handed to the auto-mapping
  amResult,       \* the mapping the auto-mapping built from amH
  reportsMounted, \* Reports: the component is rendered (route /reports)
  reportsGen,     \* Reports: which instance of the component it is
  reports,        \* Reports: data of the 'fraud-reports' query
  reportsFetching,\* Reports: GET /fraud/reports in flight
  reportsError,   \* Reports: error of the 'fraud-reports' query
  verifyRequests, \* POST /verification/verify requests in flight
  rlast,          \* the operation of the Reports page that ran last
  isIntegrationsModalOpen, \* Upload: useState isIntegrationsModalOpen
  selectedIntegration,     \* IntegrationsModal: useState selectedIntegration
  isImporting,    \* IntegrationsModal: useState isImporting
  importPending,  \* POST of the Alto import in flight
  ilast,          \* the operation of the IntegrationsModal that ran last
  selReports,     \* a report list handed to the high-confidence filter
  selResult       \* what the filter built from selReports

\* the state of the session store and of the Reports page
sessionVars == <<localStorage, now, pc, user, token, isLoading, storedToken,
                 mePending, meCalls, logoutPending, verifyPending, userFrom, last>>
\* the state of the upload wizard
wizardVars == <<isModalOpen, file, headers, mapping, step, uploadStats,
                parsePending, uploads, wlast>>
\* the input and the output of the auto-mapping taken alone
autoMapVars == <<amH, amResult>>
\* the state of the Reports page without verifyMutation.isPending, which is
\* verifyPending
reportsVars == <<reportsMounted, reportsGen, reports, reportsFetching,
                 reportsError, verifyRequests, rlast>>
\* the state of the IntegrationsModal and of the flag that renders it
importVars == <<isIntegrationsModalOpen, selectedIntegration, isImporting,
                importPending, ilast>>
\* the input and the output of the high-confidence filter taken alone
selectVars == <<selReports, selResult>>
\* the pages other than the upload wizard
otherPagesVars == <<reportsVars, importVars, selectVars>>

vars == <<localStorage, now, pc, user, token, isLoading, storedToken,
          mePending, meCalls, logoutPending, verifyPending, userFrom, last,
          isModalOpen, file, headers, mapping, step, uploadStats,
          parsePending, uploads, wlast, amH, amResult,
          reportsMounted, reportsGen, reports, reportsFetching, reportsError,
          verifyRequests, rlast,
          isIntegrationsModalOpen, selectedIntegration, isImporting,
          importPending, ilast, selReports, selResult>>

(***************************************************************************)
(* Pure helpers of the session store.                                      *)
(***************************************************************************)
\* jwtDecode(storedToken) throws on a string that is not a JWT
JwtDecodeThrows(t) == ~t.ok
\* jwtDecode(storedToken): the payload
jwtDecode(t) == [exp |-> t.exp, sub |-> t.sub, agency_name |-> t.agency_name]

\* decoded.exp && decoded.exp * 1000 < Date.now()
\* (an absent claim and the claim 0 are both falsy)
IsExpired(decoded, nowMs) ==
  /\ decoded.exp # NoExp
  /\ decoded.exp # 0
  /\ decoded.exp * MsPerSec < nowMs

\* the user built from the decoded payload alone
DecodedUser(decoded) ==
  [agency_id   |-> decoded.sub,
   agency_name |-> IF decoded.agency_name = "" THEN "Agency" ELSE decoded.agency_name,
   sub         |-> decoded.sub,
   isNull      |-> FALSE]

\* the user built from the response of GET /auth/me
ProfileUser(data) ==
  [agency_id |-> data.id, agency_name |-> data.name, sub |-> data.id, isNull |-> FALSE]

\* the user Login.handleSubmit builds from the login response
LoginUser(agency_id, agency_name) ==
  [agency_id |-> agency_id, agency_name |-> agency_name, sub |-> agency_id, isNull |-> FALSE]

\* isAuthenticated: !!user
isAuthenticated == user # NoUser

\* what ProtectedRoute renders
ProtectedRoute ==
  IF isLoading THEN "loading"
  ELSE IF isAuthenticated THEN "outlet" ELSE "navigate_login"

\* localStorage.removeItem(key) / setItem(key, value)
RemoveItem(store, key) == [store EXCEPT ![key] = NoToken]
SetItem_Noop(store, key, value) == store
SetItem(store, key, value) == [store EXCEPT ![key] = value]

(***************************************************************************)
(* Strings of the upload wizard.  A string is the sequence of its          *)
(* characters, so that toLowerCase and includes are computed as            *)
(* JavaScript computes them.                                               *)
(***************************************************************************)
\* bounds: the longest header list handed to the auto-mapping taken alone,
\* the Papa.parse calls and the upload requests that may be pending at once
MaxHeaders == 3
MaxParses == 2
MaxUploads == 2

S_address == <<"a", "d", "d", "r", "e", "s", "s">>
S_postcode == <<"p", "o", "s", "t", "c", "o", "d", "e">>
S_client_name == <<"c", "l", "i", "e", "n", "t", "_", "n", "a", "m", "e">>
S_status == <<"s", "t", "a", "t", "u", "s">>
S_withdrawn_date == <<"w", "i", "t", "h", "d", "r", "a", "w", "n", "_", "d", "a", "t", "e">>
S_Addr == <<"A", "d", "d", "r">>
S_PostCode == <<"P", "o", "s", "t", "C", "o", "d", "e">>
S_Client == <<"C", "l", "i", "e", "n", "t">>
S_Status == <<"S", "t", "a", "t", "u", "s">>
S_Withdrawn == <<"W", "i", "t", "h", "d", "r", "a", "w", "n">>
S_Address == <<"A", "d", "d", "r", "e", "s", "s">>
S_PropertyAddress == <<"P", "r", "o", "p", "e", "r", "t", "y", " ", "A", "d", "d", "r", "e", "s", "s">>
S_Date == <<"D", "a", "t", "e">>
\* the empty string (the "Select column..." option)
EmptyStr == <<>>
\* the value of mapping[key] for a key that was never set
Undefined == <<"undefined">>

\* String.prototype.toLowerCase, character by character
LowerChar(c) ==
  CASE c = "A" -> "a" []
       c = "B" -> "b" []
       c = "C" -> "c" []
       c = "D" -> "d" []
       c = "E" -> "e" []
       c = "F" -> "f" []
       c = "G" -> "g" []
       c = "H" -> "h" []
       c = "I" -> "i" []
       c = "J" -> "j" []
       c = "K" -> "k" []
       c = "L" -> "l" []
       c = "M" -> "m" []
       c = "N" -> "n" []
       c = "O" -> "o" []
       c = "P" -> "p" []
       c = "Q" -> "q" []
       c = "R" -> "r" []
       c = "S" -> "s" []
       c = "T" -> "t" []
       c = "U" -> "u" []
       c = "V" -> "v" []
       c = "W" -> "w" []
       c = "X" -> "x" []
       c = "Y" -> "y" []
       c = "Z" -> "z" []
       OTHER -> c
toLowerCase(s) == [i \in 1..Len(s) |-> LowerChar(s[i])]
\* String.prototype.includes
includes(s, k) ==
  \E i \in 0..(Len(s) - Len(k)) : SubSeq(s, i + 1, i + Len(k)) = k

\* REQUIRED_FIELDS
REQUIRED_FIELDS ==
  << [key |-> S_address,        label |-> "Property Address"],
     [key |-> S_postcode,       label |-> "Postcode"],
     [key |-> S_client_name,    label |-> "Client Name"],
     [key |-> S_status,         label |-> "Listing Status"],
     [key |-> S_withdrawn_date, label |-> "Withdrawn Date"] >>
FieldKeys == { REQUIRED_FIELDS[i].key : i \in 1..Len(REQUIRED_FIELDS) }

\* mutant: the substring test also accepts a header that is part of the key
HeaderMatches_EitherWay(h, key) ==
  \/ toLowerCase(h) = toLowerCase(key)
  \/ includes(toLowerCase(h), key)
  \/ includes(key, toLowerCase(h))

\* the predicate of results.meta.fields.find:
\* h.toLowerCase() === field.key.toLowerCase() || h.toLowerCase().includes(field.key)
HeaderMatches(h, key) ==
  \/ toLowerCase(h) = toLowerCase(key)
  \/ includes(toLowerCase(h), key)

\* Array.prototype.find: the first element that satisfies the predicate
FindMatch(fields, key) ==
  IF \E i \in 1..Len(fields) : HeaderMatches(fields[i], key)
    THEN fields[CHOOSE i \in 1..Len(fields) :
                  /\ HeaderMatches(fields[i], key)
                  /\ \A j \in 1..(i - 1) : ~HeaderMatches(fields[j], key)]
    ELSE Undefined

\* initialMapping of parseHeaders: a key without a match stays unset
AutoMap(fields) == [k \in FieldKeys |-> FindMatch(fields, k)]
\* the mapping {} of useState and of reset
EmptyMapping == [k \in FieldKeys |-> Undefined]

\* header names the files of the model use
HeaderPool ==
  {S_Addr, S_PostCode, S_Client, S_Status, S_Withdrawn, S_address, S_Address,
   S_PropertyAddress, S_postcode, S_client_name, S_withdrawn_date, S_Date}
\* the header list of the scenario of section 8 of the specification
ScenarioHeaders == <<S_Addr, S_PostCode, S_Client, S_Status, S_Withdrawn>>
\* the header lists handed to the auto-mapping taken alone
HeaderLists ==
  {ScenarioHeaders} \cup UNION { [1..n -> HeaderPool] : n \in 0..MaxHeaders }

\* the session after RestoreNoToken and a login of agency a1: the state in
\* which ProtectedRoute renders the Upload page
SessionAfterLogin ==
  /\ localStorage = [k \in StorageKeys |-> IF k = "token" THEN IssuedToken("a1") ELSE NoToken]
  /\ now = 1000
  /\ pc = "mounted"
  /\ user = LoginUser("a1", "Acme Ltd")
  /\ token = IssuedToken("a1")
  /\ isLoading = FALSE
  /\ storedToken = NoToken
  /\ mePending = 0
  /\ meCalls = 0
  /\ logoutPending = 0
  /\ verifyPending = FALSE
  /\ userFrom = "login"
  /\ last = [op |-> "login",
             arg |-> [token |-> IssuedToken("a1"), user |-> LoginUser("a1", "Acme Ltd")]]

\* null file and null uploadStats
NoFile == [name |-> "null", fields |-> <<>>, hasFields |-> FALSE]
NoStats == [records_processed |-> -1, records_skipped |-> -1]

\* the Upload component after its first render
WizardIdle ==
  /\ isModalOpen = FALSE
  /\ file = NoFile
  /\ headers = <<>>
  /\ mapping = EmptyMapping
  /\ step = "upload"
  /\ uploadStats = NoStats
  /\ parsePending = <<>>
  /\ uploads = <<>>
  /\ wlast = [op |-> "none", arg |-> "none"]

\* the auto-mapping taken alone has not run
AutoMapIdle ==
  /\ amH = <<>>
  /\ amResult = [done |-> FALSE, map |-> EmptyMapping]

(***************************************************************************)
(* Values of the Reports page and of the IntegrationsModal.                *)
(***************************************************************************)
\* Reports component instances over one run (route changes back to /reports)
MaxMounts == 2
\* POST /verification/verify requests that may be in flight together
MaxVerifies == 2
\* longest report list handed to the high-confidence filter taken alone
MaxReports == 2
\* longest errors list of an import response
MaxImportErrors == 2
\* times the high-confidence filter is applied to one list
MaxCalls == 2

\* r.confidence_score >= 0.85, scores counted in hundredths
HighConfidence == 85

\* FraudReport, the fields the Reports page reads
VerificationStatuses == {"suspicious", "confirmed_fraud", "not_fraud", "error"}
\* risk_level; "none" is an absent risk_level
RiskLevels == {"CRITICAL", "HIGH", "MEDIUM", "LOW", "none"}
FraudReport(id, score, status, risk) ==
  [id |-> id, confidence_score |-> score, verification_status |-> status,
   risk_level |-> risk]

\* data of the query: undefined until the first response
NoReports == [loaded |-> FALSE, list |-> <<>>]
Loaded(list) == [loaded |-> TRUE, list |-> list]

\* response.data of GET /fraud/reports
ReportLists ==
  { <<>>,
    << FraudReport("m1", 85, "suspicious", "MEDIUM"),
       FraudReport("m2", 84, "suspicious", "LOW") >>,
    << FraudReport("m2", 90, "suspicious", "HIGH"),
       FraudReport("m1", 100, "confirmed_fraud", "none") >>,
    << FraudReport("m1", 84, "suspicious", "none"),
       FraudReport("m2", 70, "not_fraud", "LOW") >> }

\* VerificationResponse: response.data of POST /verification/verify
VerificationResponses ==
  [confirmed_fraud : 0..1, not_fraud : 0..1, errors : 0..1]

\* the report lists handed to the high-confidence filter taken alone
SelectPool ==
  { FraudReport(id, sc, st, "LOW") :
      id \in MatchIds, sc \in {HighConfidence - 1, HighConfidence, HighConfidence + 1},
      st \in {"suspicious", "confirmed_fraud"} }
SelectLists == UNION { [1..n -> SelectPool] : n \in 0..MaxReports }

\* the filter of handleVerifyAllHighConfidence
IsHighConfidencePending_Strict(r) ==
  /\ r.confidence_score > HighConfidence
  /\ r.verification_status = "suspicious"
IsHighConfidencePending(r) ==
  /\ r.confidence_score >= HighConfidence
  /\ r.verification_status = "suspicious"
\* reports.filter(...): Array.prototype.filter keeps the order of the list
selectHighConfidencePending(list) == SelectSeq(list, IsHighConfidencePending)
\* .map(r => r.id)
highConfidenceIds(list) ==
  [i \in 1..Len(selectHighConfidencePending(list)) |->
     selectHighConfidencePending(list)[i].id]

\* data.errors of an import response: per-record messages
ImportMessages == {"row 3: no postcode", "row 7: bad date"}
ImportErrorLists == UNION { [1..n -> ImportMessages] : n \in 0..MaxImportErrors }
\* response.data of POST ALTO_IMPORT; message "" is an absent message
ImportResponses ==
  [message : {"", "Import finished"}, properties_imported : 0..2,
   errors : ImportErrorLists]

\* no toast shown, no response data
NoToast == [kind |-> "none", shows |-> <<>>]
NoData == [confirmed_fraud |-> -1, not_fraud |-> -1, errors |-> -1]
\* the last operation of the Reports page: the ids it handed to mutate, the
\* response data it received and the toast it showed
RLast(op, outcome, ids, data, toast) ==
  [op |-> op, outcome |-> outcome, ids |-> ids, data |-> data, toast |-> toast]

\* the Reports page is not rendered and nothing was fetched
ReportsIdle ==
  /\ reportsMounted = FALSE
  /\ reportsGen = 0
  /\ reports = NoReports
  /\ reportsFetching = FALSE
  /\ reportsError = FALSE
  /\ verifyRequests = <<>>
  /\ rlast = RLast("none", "none", <<>>, NoData, NoToast)

\* no import response
NoImportData == [message |-> "", properties_imported |-> -1, errors |-> <<>>]
\* a toast of the IntegrationsModal: its kind, its text and the number the
\* text carries (-1: none)
ImportToast(kind, message, count) ==
  [kind |-> kind, message |-> message, count |-> count]
\* the last import attempt: the response it received, the toasts it showed
\* in order, and whether it called onSuccess
ILast(op, data, toasts, called) ==
  [op |-> op, data |-> data, toasts |-> toasts, onSuccess |-> called]

\* the Upload page after its first render: IntegrationsModal not rendered
ImportIdle ==
  /\ isIntegrationsModalOpen = FALSE
  /\ selectedIntegration = "null"
  /\ isImporting = FALSE
  /\ importPending = FALSE
  /\ ilast = ILast("none", NoImportData, <<>>, FALSE)

\* the high-confidence filter taken alone has not run
SelectIdle ==
  /\ selReports = <<>>
  /\ selResult = [calls |-> 0, picked |-> <<>>, ids |-> <<>>]

OtherPagesIdle ==
  /\ ReportsIdle
  /\ ImportIdle
  /\ SelectIdle

(***************************************************************************)
(* Initial state: the page has loaded, the provider is constructed and its *)
(* mount effect has not run yet.                                           *)
(***************************************************************************)
Init ==
  /\ localStorage \in [StorageKeys -> {NoToken} \cup StoredTokens]
  /\ localStorage["other"] = NoToken
  /\ now \in NowValues
  /\ pc = "start"
  /\ user = NoUser
  /\ token = NoToken
  /\ isLoading = TRUE
  /\ storedToken = NoToken
  /\ mePending = 0
  /\ meCalls = 0
  /\ logoutPending = 0
  /\ verifyPending = FALSE
  /\ userFrom = "none"
  /\ last = [op |-> "none", arg |-> "none"]
  /\ WizardIdle
  /\ AutoMapIdle
  /\ OtherPagesIdle

(***************************************************************************)
(* The mount effect of AuthProvider (restore), one action per path.        *)
(***************************************************************************)
\* no item under 'token'
RestoreNoToken ==
  /\ pc = "start"
  /\ localStorage["token"] = NoToken
  /\ pc' = "mounted"
  /\ storedToken' = NoToken
  /\ isLoading' = FALSE
  /\ last' = [op |-> "restore", arg |-> "no_token"]
  /\ UNCHANGED <<localStorage, now, user, token, mePending, meCalls,
                 logoutPending, verifyPending, userFrom>>
  /\ UNCHANGED <<wizardVars, autoMapVars, otherPagesVars>>

\* mutant: the catch block forgets setIsLoading(false)
RestoreInvalid_StaysLoading ==
  /\ pc = "start"
  /\ localStorage["token"] # NoToken
  /\ JwtDecodeThrows(localStorage["token"])
  /\ pc' = "mounted"
  /\ storedToken' = localStorage["token"]
  /\ localStorage' = RemoveItem(localStorage, "token")
  /\ last' = [op |-> "restore", arg |-> "invalid"]
  /\ UNCHANGED <<now, user, token, isLoading, mePending, meCalls,
                 logoutPending, verifyPending, userFrom>>
  /\ UNCHANGED <<wizardVars, autoMapVars, otherPagesVars>>

\* jwtDecode throws: the catch block removes the item
RestoreInvalid ==
  /\ pc = "start"
  /\ localStorage["token"] # NoToken
  /\ JwtDecodeThrows(localStorage["token"])
  /\ pc' = "mounted"
  /\ storedToken' = localStorage["token"]
  /\ localStorage' = RemoveItem(localStorage, "token")
  /\ isLoading' = FALSE
  /\ last' = [op |-> "restore", arg |-> "invalid"]
  /\ UNCHANGED <<now, user, token, mePending, meCalls,
                 logoutPending, verifyPending, userFrom>>
  /\ UNCHANGED <<wizardVars, autoMapVars, otherPagesVars>>

\* the expiry check hits: the item is removed and the effect returns
RestoreExpired ==
  /\ pc = "start"
  /\ localStorage["token"] # NoToken
  /\ ~JwtDecodeThrows(localStorage["token"])
  /\ IsExpired(jwtDecode(localStorage["token"]), now)
  /\ pc' = "mounted"
  /\ storedToken' = localStorage["token"]
  /\ localStorage' = RemoveItem(localStorage, "token")
  /\ isLoading' = FALSE
  /\ last' = [op |-> "restore", arg |-> "expired"]
  /\ UNCHANGED <<now, user, token, mePending, meCalls,
                 logoutPending, verifyPending, userFrom>>
  /\ UNCHANGED <<wizardVars, autoMapVars, otherPagesVars>>

\* mutant: the effect issues the profile request twice
RestoreOptimistic_Twice ==
  /\ pc = "start"
  /\ localStorage["token"] # NoToken
  /\ ~JwtDecodeThrows(localStorage["token"])
  /\ ~IsExpired(jwtDecode(localStorage["token"]), now)
  /\ pc' = "mounted"
  /\ storedToken' = localStorage["token"]
  /\ token' = localStorage["token"]
  /\ user' = DecodedUser(jwtDecode(localStorage["token"]))
  /\ userFrom' = "decode"
  /\ mePending' = mePending + 2
  /\ meCalls' = meCalls + 2
  /\ last' = [op |-> "restore", arg |-> "optimistic"]
  /\ UNCHANGED <<localStorage, now, isLoading, logoutPending, verifyPending>>
  /\ UNCHANGED <<wizardVars, autoMapVars, otherPagesVars>>

\* the token decodes and passes the expiry check: optimistic setToken and
\* setUser, then GET /auth/me is sent
RestoreOptimistic ==
  /\ pc = "start"
  /\ localStorage["token"] # NoToken
  /\ ~JwtDecodeThrows(localStorage["token"])
  /\ ~IsExpired(jwtDecode(localStorage["token"]), now)
  /\ pc' = "mounted"
  /\ storedToken' = localStorage["token"]
  /\ token' = localStorage["token"]
  /\ user' = DecodedUser(jwtDecode(localStorage["token"]))
  /\ userFrom' = "decode"
  /\ mePending' = mePending + 1
  /\ meCalls' = meCalls + 1
  /\ last' = [op |-> "restore", arg |-> "optimistic"]
  /\ UNCHANGED <<localStorage, now, isLoading, logoutPending, verifyPending>>
  /\ UNCHANGED <<wizardVars, autoMapVars, otherPagesVars>>

\* mutant: the success handler ends loading but keeps the decoded user
RefreshSuccess_KeepUser(data) ==
  /\ mePending > 0
  /\ mePending' = mePending - 1
  /\ isLoading' = FALSE
  /\ last' = [op |-> "refresh_ok", arg |-> data]
  /\ UNCHANGED <<localStorage, now, pc, user, token, storedToken, meCalls,
                 logoutPending, verifyPending, userFrom>>
  /\ UNCHANGED <<wizardVars, autoMapVars, otherPagesVars>>

\* GET /auth/me resolves: .then sets the user from the response, .finally
\* ends loading
RefreshSuccess(data) ==
  /\ mePending > 0
  /\ mePending' = mePending - 1
  /\ user' = ProfileUser(data)
  /\ userFrom' = "me"
  /\ isLoading' = FALSE
  /\ last' = [op |-> "refresh_ok", arg |-> data]
  /\ UNCHANGED <<localStorage, now, pc, token, storedToken, meCalls,
                 logoutPending, verifyPending>>
  /\ UNCHANGED <<wizardVars, autoMapVars, otherPagesVars>>

\* mutant: the failure handler forgets localStorage.removeItem
RefreshFail_KeepStorage(kind) ==
  /\ mePending > 0
  /\ mePending' = mePending - 1
  /\ token' = NoToken
  /\ user' = NoUser
  /\ userFrom' = "none"
  /\ isLoading' = FALSE
  /\ last' = [op |-> "refresh_fail", arg |-> kind]
  /\ UNCHANGED <<localStorage, now, pc, storedToken, meCalls,
                 logoutPending, verifyPending>>
  /\ UNCHANGED <<wizardVars, autoMapVars, otherPagesVars>>

\* GET /auth/me rejects: .catch removes the item and clears token and user,
\* .finally ends loading
RefreshFail(kind) ==
  /\ mePending > 0
  /\ mePending' = mePending - 1
  /\ localStorage' = RemoveItem(localStorage, "token")
  /\ token' = NoToken
  /\ user' = NoUser
  /\ userFrom' = "none"
  /\ isLoading' = FALSE
  /\ last' = [op |-> "refresh_fail", arg |-> kind]
  /\ UNCHANGED <<now, pc, storedToken, meCalls, logoutPending, verifyPending>>
  /\ UNCHANGED <<wizardVars, autoMapVars, otherPagesVars>>

(***************************************************************************)
(* login and logout of the context value; callers exist once the provider  *)
(* has rendered and its mount effect has run.                              *)
(***************************************************************************)
\* mutant: the token is persisted under another key
Login_OtherKey(newToken, newUser) ==
  /\ pc = "mounted"
  /\ localStorage' = SetItem(localStorage, "other", newToken)
  /\ token' = newToken
  /\ user' = newUser
  /\ userFrom' = "login"
  /\ last' = [op |-> "login", arg |-> [token |-> newToken, user |-> newUser]]
  /\ UNCHANGED <<now, pc, isLoading, storedToken, mePending, meCalls,
                 logoutPending, verifyPending>>
  /\ UNCHANGED <<wizardVars, autoMapVars, otherPagesVars>>

\* login(newToken, newUser)
Login(newToken, newUser) ==
  /\ pc = "mounted"
  /\ localStorage' = SetItem(localStorage, "token", newToken)
  /\ token' = newToken
  /\ user' = newUser
  /\ userFrom' = "login"
  /\ last' = [op |-> "login", arg |-> [token |-> newToken, user |-> newUser]]
  /\ UNCHANGED <<now, pc, isLoading, storedToken, mePending, meCalls,
                 logoutPending, verifyPending>>
  /\ UNCHANGED <<wizardVars, autoMapVars, otherPagesVars>>

\* logout() up to its await: POST /auth/logout is sent
LogoutStart ==
  /\ pc = "mounted"
  /\ logoutPending < MaxLogouts
  /\ logoutPending' = logoutPending + 1
  /\ last' = [op |-> "logout_start", arg |-> "none"]
  /\ UNCHANGED <<localStorage, now, pc, user, token, isLoading, storedToken,
                 mePending, meCalls, verifyPending, userFrom>>
  /\ UNCHANGED <<wizardVars, autoMapVars, otherPagesVars>>

\* mutant: no try/catch around the post, a rejection leaves the function
LogoutDone_NoCatch(outcome) ==
  /\ logoutPending > 0
  /\ logoutPending' = logoutPending - 1
  /\ IF outcome = "ok"
       THEN /\ localStorage' = RemoveItem(localStorage, "token")
            /\ token' = NoToken
            /\ user' = NoUser
            /\ userFrom' = "none"
            /\ last' = [op |-> "logout_done",
                        arg |-> [outcome |-> outcome, settled |-> "fulfilled"]]
       ELSE /\ UNCHANGED <<localStorage, token, user, userFrom>>
            /\ last' = [op |-> "logout_done",
                        arg |-> [outcome |-> outcome, settled |-> "rejected"]]
  /\ UNCHANGED <<now, pc, isLoading, storedToken, mePending, meCalls, verifyPending>>
  /\ UNCHANGED <<wizardVars, autoMapVars, otherPagesVars>>

\* logout() after its await: a rejection of the post is caught and logged,
\* then the item is removed and token and user are cleared; the promise
\* logout returned is fulfilled either way
LogoutDone(outcome) ==
  /\ logoutPending > 0
  /\ logoutPending' = logoutPending - 1
  /\ localStorage' = RemoveItem(localStorage, "token")
  /\ token' = NoToken
  /\ user' = NoUser
  /\ userFrom' = "none"
  /\ last' = [op |-> "logout_done",
              arg |-> [outcome |-> outcome, settled |-> "fulfilled"]]
  /\ UNCHANGED <<now, pc, isLoading, storedToken, mePending, meCalls, verifyPending>>
  /\ UNCHANGED <<wizardVars, autoMapVars, otherPagesVars>>

(***************************************************************************)
(* An authenticated call: verifyMutation of the Reports page, which is     *)
(* rendered inside ProtectedRoute.                                         *)
(***************************************************************************)
\* handleVerify(id): verifyMutation.mutate([id]); the button is disabled
\* while the mutation is pending
handleVerify(id) ==
  /\ pc = "mounted"
  /\ ProtectedRoute = "outlet"
  /\ ~verifyPending
  /\ verifyPending' = TRUE
  /\ last' = [op |-> "verify", arg |-> {id}]
  /\ UNCHANGED <<localStorage, now, pc, user, token, isLoading, storedToken,
                 mePending, meCalls, logoutPending, userFrom>>
  /\ UNCHANGED <<wizardVars, autoMapVars, otherPagesVars>>

\* the post settles: onSuccess or onError shows a toast; neither touches
\* the session
VerifySettled(outcome) ==
  /\ verifyPending
  /\ verifyPending' = FALSE
  /\ last' = [op |-> "verify_settled", arg |-> outcome]
  /\ UNCHANGED <<localStorage, now, pc, user, token, isLoading, storedToken,
                 mePending, meCalls, logoutPending, userFrom>>
  /\ UNCHANGED <<wizardVars, autoMapVars, otherPagesVars>>

(***************************************************************************)
(* Next-state relation.                                                    *)
(***************************************************************************)
Next ==
  \/ RestoreNoToken
  \/ RestoreInvalid
  \/ RestoreExpired
  \/ RestoreOptimistic
  \/ \E data \in ServerProfiles : RefreshSuccess(data)
  \/ \E kind \in ApiFailures : RefreshFail(kind)
  \/ \E id \in AgencyIds, nm \in ServerNames :
       Login(IssuedToken(id), LoginUser(id, nm))
  \/ LogoutStart
  \/ \E outcome \in ApiOutcomes : LogoutDone(outcome)
  \/ \E id \in MatchIds : handleVerify(id)
  \/ \E outcome \in ApiOutcomes : VerifySettled(outcome)

Spec == Init /\ [][Next]_vars

(***************************************************************************)
(* Scheduling.  React runs the mount effect once the provider has          *)
(* rendered, and the profile request, once issued, is taken to settle (the *)
(* transport resolves or rejects it); logins, logouts and verifications    *)
(* depend on the user and need not happen.                                 *)
(***************************************************************************)
\* the mount effect, whichever path it takes
Restore ==
  \/ RestoreNoToken
  \/ RestoreInvalid
  \/ RestoreExpired
  \/ RestoreOptimistic
\* the promise of api.get(ENDPOINTS.AUTH.ME) settles
RefreshResolves ==
  \/ \E data \in ServerProfiles : RefreshSuccess(data)
  \/ \E kind \in ApiFailures : RefreshFail(kind)

SpecLive == Spec /\ WF_vars(Restore) /\ WF_vars(RefreshResolves)

(***************************************************************************)
(* The upload wizard of the Upload page (src/src/pages/Upload.tsx).        *)
(***************************************************************************)
\* files the user may drop; hasFields tells whether Papa.parse reports
\* results.meta.fields for the file
Files ==
  { [name |-> "listings.csv", hasFields |-> TRUE,
     fields |-> <<S_address, S_postcode, S_client_name, S_status, S_Date>>],
    [name |-> "export.csv", hasFields |-> TRUE,
     fields |-> <<S_PostCode, S_Status>>],
    [name |-> "broken.csv", hasFields |-> FALSE, fields |-> <<>>] }
\* response.data of POST /documents/upload
UploadStatsValues == { [records_processed |-> 10, records_skipped |-> 2] }
\* the keys whose select the user changes, and the options the user picks:
\* "Select column..." or the last column of the file
EditedKeys == {S_postcode, S_withdrawn_date}
EditChoices(hs) == {EmptyStr} \cup (IF hs = <<>> THEN {} ELSE {hs[Len(hs)]})

\* a sequence without its i-th element
RemoveAt(seq, i) == SubSeq(seq, 1, i - 1) \o SubSeq(seq, i + 1, Len(seq))

\* the Upload page is rendered inside ProtectedRoute
UploadPageShown == pc = "mounted" /\ ProtectedRoute = "outlet"
\* step === "upload": the dropzone is rendered
DropzoneShown == UploadPageShown /\ isModalOpen /\ step = "upload"
\* step === "mapping" && file: the mapping form is rendered
MappingShown == UploadPageShown /\ isModalOpen /\ step = "mapping" /\ file # NoFile
\* step === "success" && uploadStats: the result view is rendered
SuccessShown == UploadPageShown /\ isModalOpen /\ step = "success" /\ uploadStats # NoStats

\* !mapping[f.key]: unset or the empty string
IsMissing(m, key) == m[key] = Undefined \/ m[key] = EmptyStr
\* missingFields.map(f => f.label): labels of the missing fields, in the
\* order of REQUIRED_FIELDS
RECURSIVE MissingLabelsFrom(_, _)
MissingLabelsFrom(m, i) ==
  IF i > Len(REQUIRED_FIELDS) THEN <<>>
  ELSE (IF IsMissing(m, REQUIRED_FIELDS[i].key)
          THEN <<REQUIRED_FIELDS[i].label>> ELSE <<>>)
       \o MissingLabelsFrom(m, i + 1)
MissingLabels(m) == MissingLabelsFrom(m, 1)

\* "Add New Listing": setIsModalOpen(true)
OpenModal ==
  /\ UploadPageShown
  /\ ~isModalOpen
  /\ isModalOpen' = TRUE
  /\ wlast' = [op |-> "open_modal", arg |-> "none"]
  /\ UNCHANGED <<file, headers, mapping, step, uploadStats, parsePending, uploads>>
  /\ UNCHANGED <<sessionVars, autoMapVars, otherPagesVars>>

\* onDrop: setFile(selectedFile); parseHeaders(selectedFile) starts Papa.parse
onDrop(selectedFile) ==
  /\ DropzoneShown
  /\ Len(parsePending) < MaxParses
  /\ file' = selectedFile
  /\ parsePending' = Append(parsePending, selectedFile)
  /\ wlast' = [op |-> "onDrop", arg |-> selectedFile.name]
  /\ UNCHANGED <<isModalOpen, headers, mapping, step, uploadStats, uploads>>
  /\ UNCHANGED <<sessionVars, autoMapVars, otherPagesVars>>

\* complete callback of Papa.parse with results.meta.fields: setHeaders,
\* setMapping(initialMapping), setStep("mapping")
ParseComplete(i) ==
  /\ i \in 1..Len(parsePending)
  /\ parsePending[i].hasFields
  /\ parsePending' = RemoveAt(parsePending, i)
  /\ headers' = parsePending[i].fields
  /\ mapping' = AutoMap(parsePending[i].fields)
  /\ step' = "mapping"
  /\ wlast' = [op |-> "parse_complete", arg |-> parsePending[i].name]
  /\ UNCHANGED <<isModalOpen, file, uploadStats, uploads>>
  /\ UNCHANGED <<sessionVars, autoMapVars, otherPagesVars>>

\* complete callback without results.meta.fields:
\* toast.error("Could not parse CSV headers")
ParseNoFields(i) ==
  /\ i \in 1..Len(parsePending)
  /\ ~parsePending[i].hasFields
  /\ parsePending' = RemoveAt(parsePending, i)
  /\ wlast' = [op |-> "parse_no_fields", arg |-> parsePending[i].name,
               toast |-> "Could not parse CSV headers"]
  /\ UNCHANGED <<isModalOpen, file, headers, mapping, step, uploadStats, uploads>>
  /\ UNCHANGED <<sessionVars, autoMapVars, otherPagesVars>>

\* error callback of Papa.parse (the file could not be read):
\* toast.error("Error parsing CSV: ...")
ParseError(i) ==
  /\ i \in 1..Len(parsePending)
  /\ parsePending' = RemoveAt(parsePending, i)
  /\ wlast' = [op |-> "parse_error", arg |-> parsePending[i].name,
               toast |-> "Error parsing CSV"]
  /\ UNCHANGED <<isModalOpen, file, headers, mapping, step, uploadStats, uploads>>
  /\ UNCHANGED <<sessionVars, autoMapVars, otherPagesVars>>

\* mutant: the edit replaces the mapping instead of spreading prev
handleMappingChange_NoSpread(systemField, csvHeader) ==
  /\ MappingShown
  /\ mapping' = [EmptyMapping EXCEPT ![systemField] = csvHeader]
  /\ wlast' = [op |-> "handleMappingChange", arg |-> "none"]
  /\ UNCHANGED <<isModalOpen, file, headers, step, uploadStats, parsePending, uploads>>
  /\ UNCHANGED <<sessionVars, autoMapVars, otherPagesVars>>

\* handleMappingChange: setMapping(prev => ({...prev, [systemField]: csvHeader}))
handleMappingChange(systemField, csvHeader) ==
  /\ MappingShown
  /\ mapping' = [mapping EXCEPT ![systemField] = csvHeader]
  /\ wlast' = [op |-> "handleMappingChange", arg |-> "none"]
  /\ UNCHANGED <<isModalOpen, file, headers, step, uploadStats, parsePending, uploads>>
  /\ UNCHANGED <<sessionVars, autoMapVars, otherPagesVars>>

\* mutant: the toast lists the labels of all required fields
handleUploadInvalid_AllLabels ==
  /\ MappingShown
  /\ MissingLabels(mapping) # <<>>
  /\ wlast' = [op |-> "handleUpload", arg |-> "invalid",
               toast |-> MissingLabels(EmptyMapping)]
  /\ UNCHANGED <<isModalOpen, file, headers, mapping, step, uploadStats,
                 parsePending, uploads>>
  /\ UNCHANGED <<sessionVars, autoMapVars, otherPagesVars>>

\* handleUpload with missing fields: toast.error("Please map all required
\* fields: <labels>") and return
handleUploadInvalid ==
  /\ MappingShown
  /\ MissingLabels(mapping) # <<>>
  /\ wlast' = [op |-> "handleUpload", arg |-> "invalid",
               toast |-> MissingLabels(mapping)]
  /\ UNCHANGED <<isModalOpen, file, headers, mapping, step, uploadStats,
                 parsePending, uploads>>
  /\ UNCHANGED <<sessionVars, autoMapVars, otherPagesVars>>

\* mutant: the validation only looks for keys that were never set
handleUploadSubmit_UndefinedOnly ==
  /\ MappingShown
  /\ \A k \in FieldKeys : mapping[k] # Undefined
  /\ Len(uploads) < MaxUploads
  /\ step' = "uploading"
  /\ uploads' = Append(uploads, [file |-> file, field_mapping |-> mapping])
  /\ wlast' = [op |-> "handleUpload", arg |-> "submitted"]
  /\ UNCHANGED <<isModalOpen, file, headers, mapping, uploadStats, parsePending>>
  /\ UNCHANGED <<sessionVars, autoMapVars, otherPagesVars>>

\* handleUpload with a complete mapping: setStep("uploading") and the post
\* of the file with JSON.stringify(mapping)
handleUploadSubmit ==
  /\ MappingShown
  /\ MissingLabels(mapping) = <<>>
  /\ Len(uploads) < MaxUploads
  /\ step' = "uploading"
  /\ uploads' = Append(uploads, [file |-> file, field_mapping |-> mapping])
  /\ wlast' = [op |-> "handleUpload", arg |-> "submitted"]
  /\ UNCHANGED <<isModalOpen, file, headers, mapping, uploadStats, parsePending>>
  /\ UNCHANGED <<sessionVars, autoMapVars, otherPagesVars>>

\* the post resolves: setUploadStats(response.data); setStep("success")
UploadSuccess(i, data) ==
  /\ i \in 1..Len(uploads)
  /\ uploads' = RemoveAt(uploads, i)
  /\ uploadStats' = data
  /\ step' = "success"
  /\ wlast' = [op |-> "upload_ok", arg |-> "ok"]
  /\ UNCHANGED <<isModalOpen, file, headers, mapping, parsePending>>
  /\ UNCHANGED <<sessionVars, autoMapVars, otherPagesVars>>

\* the post rejects: toast.error(detail || "Failed to upload file");
\* setStep("mapping")
UploadFail(i, kind) ==
  /\ i \in 1..Len(uploads)
  /\ uploads' = RemoveAt(uploads, i)
  /\ step' = "mapping"
  /\ wlast' = [op |-> "upload_fail", arg |-> kind]
  /\ UNCHANGED <<isModalOpen, file, headers, mapping, uploadStats, parsePending>>
  /\ UNCHANGED <<sessionVars, autoMapVars, otherPagesVars>>

\* mutant: reset forgets setUploadStats(null)
Reset_KeepStats ==
  /\ file' = NoFile
  /\ headers' = <<>>
  /\ mapping' = EmptyMapping
  /\ step' = "upload"
  /\ UNCHANGED uploadStats

\* reset(): the five setters
Reset ==
  /\ file' = NoFile
  /\ headers' = <<>>
  /\ mapping' = EmptyMapping
  /\ step' = "upload"
  /\ uploadStats' = NoStats

\* "Change File" of the mapping form and "Upload Another" of the result view
resetClicked ==
  /\ MappingShown \/ SuccessShown
  /\ Reset
  /\ wlast' = [op |-> "reset", arg |-> step]
  /\ UNCHANGED <<isModalOpen, parsePending, uploads>>
  /\ UNCHANGED <<sessionVars, autoMapVars, otherPagesVars>>

\* handleCloseModal: setIsModalOpen(false); reset()
handleCloseModal ==
  /\ UploadPageShown
  /\ isModalOpen
  /\ isModalOpen' = FALSE
  /\ Reset
  /\ wlast' = [op |-> "close_modal", arg |-> step]
  /\ UNCHANGED <<parsePending, uploads>>
  /\ UNCHANGED <<sessionVars, autoMapVars, otherPagesVars>>

InitUpload ==
  /\ SessionAfterLogin
  /\ WizardIdle
  /\ AutoMapIdle
  /\ OtherPagesIdle

NextUpload ==
  \/ OpenModal
  \/ \E f \in Files : onDrop(f)
  \/ \E i \in 1..MaxParses : ParseComplete(i)
  \/ \E i \in 1..MaxParses : ParseNoFields(i)
  \/ \E i \in 1..MaxParses : ParseError(i)
  \/ \E k \in EditedKeys, h \in EditChoices(headers) : handleMappingChange(k, h)
  \/ handleUploadInvalid
  \/ handleUploadSubmit
  \/ \E i \in 1..MaxUploads, data \in UploadStatsValues : UploadSuccess(i, data)
  \/ \E i \in 1..MaxUploads, kind \in ApiFailures : UploadFail(i, kind)
  \/ resetClicked
  \/ handleCloseModal

SpecUpload == InitUpload /\ [][NextUpload]_vars

(***************************************************************************)
(* The auto-mapping taken alone: parseHeaders' complete callback computes  *)
(* initialMapping from results.meta.fields.                                *)
(***************************************************************************)
InitAutoMap ==
  /\ SessionAfterLogin
  /\ WizardIdle
  /\ OtherPagesIdle
  /\ amH \in HeaderLists
  /\ amResult = [done |-> FALSE, map |-> EmptyMapping]

ApplyAutoMap ==
  /\ ~amResult.done
  /\ amResult' = [done |-> TRUE, map |-> AutoMap(amH)]
  /\ UNCHANGED <<sessionVars, wizardVars, amH, otherPagesVars>>

NextAutoMap == ApplyAutoMap

SpecAutoMap == InitAutoMap /\ [][NextAutoMap]_vars

(***************************************************************************)
(* The Reports page (Reports component of src/src/pages/Upload.tsx),       *)
(* rendered by the route /reports inside ProtectedRoute.  The filters keep *)
(* their initial values ('all', 0), so the query has one key.  The state   *)
(* of verifyMutation belongs to the component instance: a new instance     *)
(* starts idle while the requests of an earlier one are still in flight.   *)
(***************************************************************************)
\* the session variables that the Reports page leaves alone
sessionOnlyVars == <<localStorage, now, pc, user, token, isLoading, storedToken,
                     mePending, meCalls, logoutPending, userFrom, last>>

\* the route changes to /reports: the component is rendered, useQuery
\* fetches, useMutation starts idle
Reports_mount ==
  /\ pc = "mounted"
  /\ ProtectedRoute = "outlet"
  /\ ~reportsMounted
  /\ reportsGen < MaxMounts
  /\ reportsMounted' = TRUE
  /\ reportsGen' = reportsGen + 1
  /\ verifyPending' = FALSE
  /\ reportsFetching' = TRUE
  /\ rlast' = RLast("mount", "none", <<>>, NoData, NoToast)
  /\ UNCHANGED <<reports, reportsError, verifyRequests>>
  /\ UNCHANGED <<sessionOnlyVars, wizardVars, autoMapVars, importVars, selectVars>>

\* the route changes to another page of the Layout: the component is gone,
\* its requests stay in flight
Reports_unmount ==
  /\ reportsMounted
  /\ reportsMounted' = FALSE
  /\ rlast' = RLast("unmount", "none", <<>>, NoData, NoToast)
  /\ UNCHANGED <<reportsGen, reports, reportsFetching, reportsError,
                 verifyRequests, verifyPending>>
  /\ UNCHANGED <<sessionOnlyVars, wizardVars, autoMapVars, importVars, selectVars>>

\* queryFn resolves with response.data
ReportsFetched(list) ==
  /\ reportsFetching
  /\ reports' = Loaded(list)
  /\ reportsFetching' = FALSE
  /\ reportsError' = FALSE
  /\ rlast' = RLast("fetched", "none", <<>>, NoData, NoToast)
  /\ UNCHANGED <<reportsMounted, reportsGen, verifyRequests, verifyPending>>
  /\ UNCHANGED <<sessionOnlyVars, wizardVars, autoMapVars, importVars, selectVars>>

\* queryFn rejects: the data of the query is kept, its error is set
ReportsFetchFailed(kind) ==
  /\ reportsFetching
  /\ reportsFetching' = FALSE
  /\ reportsError' = TRUE
  /\ rlast' = RLast("fetch_failed", kind, <<>>, NoData, NoToast)
  /\ UNCHANGED <<reportsMounted, reportsGen, reports, verifyRequests, verifyPending>>
  /\ UNCHANGED <<sessionOnlyVars, wizardVars, autoMapVars, importVars, selectVars>>

\* the component returns the table: neither the spinner (isLoading) nor the
\* error text
ReportsTableShown ==
  /\ reportsMounted
  /\ ~(reportsFetching /\ ~reports.loaded)
  /\ ~reportsError

\* the row of a report shows the "Dig Deeper" button
RowButtonShown(r) ==
  /\ r.verification_status = "suspicious"
  /\ ~(r.risk_level = "CRITICAL" \/ r.risk_level = "HIGH")

\* verifyMutation.mutate(matchIds): mutationFn posts match_ids
mutate(matchIds) ==
  /\ verifyRequests' = Append(verifyRequests, [match_ids |-> matchIds, gen |-> reportsGen])
  /\ verifyPending' = TRUE

\* handleVerify(id) of a row button, disabled while verifyMutation.isPending
Reports_handleVerify(id) ==
  /\ ReportsTableShown
  /\ \E i \in 1..Len(reports.list) :
       reports.list[i].id = id /\ RowButtonShown(reports.list[i])
  /\ ~verifyPending
  /\ Len(verifyRequests) < MaxVerifies
  /\ mutate(<<id>>)
  /\ rlast' = RLast("handleVerify", "sent", <<id>>, NoData, NoToast)
  /\ UNCHANGED <<reportsMounted, reportsGen, reports, reportsFetching, reportsError>>
  /\ UNCHANGED <<sessionOnlyVars, wizardVars, autoMapVars, importVars, selectVars>>

\* handleVerifyAllHighConfidence of the "Verify High Confidence" button,
\* disabled while verifyMutation.isPending; answer is what confirm() returns
Reports_handleVerifyAllHighConfidence_NoEmptyCheck(answer) ==
  /\ ReportsTableShown
  /\ ~verifyPending
  /\ Len(verifyRequests) < MaxVerifies
  /\ IF ~reports.loaded
       THEN /\ rlast' = RLast("handleVerifyAll", "no_reports", <<>>, NoData, NoToast)
            /\ UNCHANGED <<verifyRequests, verifyPending>>
       ELSE IF answer
         THEN /\ mutate(highConfidenceIds(reports.list))
              /\ rlast' = RLast("handleVerifyAll", "sent",
                                highConfidenceIds(reports.list), NoData, NoToast)
         ELSE /\ rlast' = RLast("handleVerifyAll", "declined",
                                highConfidenceIds(reports.list), NoData, NoToast)
              /\ UNCHANGED <<verifyRequests, verifyPending>>
  /\ UNCHANGED <<reportsMounted, reportsGen, reports, reportsFetching, reportsError>>
  /\ UNCHANGED <<sessionOnlyVars, wizardVars, autoMapVars, importVars, selectVars>>
Reports_handleVerifyAllHighConfidence(answer) ==
  /\ ReportsTableShown
  /\ ~verifyPending
  /\ Len(verifyRequests) < MaxVerifies
  /\ IF ~reports.loaded
       THEN /\ rlast' = RLast("handleVerifyAll", "no_reports", <<>>, NoData, NoToast)
            /\ UNCHANGED <<verifyRequests, verifyPending>>
       ELSE IF Len(highConfidenceIds(reports.list)) = 0
         THEN /\ rlast' = RLast("handleVerifyAll", "none_found", <<>>, NoData,
                                [kind |-> "info", shows |-> <<>>])
              /\ UNCHANGED <<verifyRequests, verifyPending>>
         ELSE IF answer
           THEN /\ mutate(highConfidenceIds(reports.list))
                /\ rlast' = RLast("handleVerifyAll", "sent",
                                  highConfidenceIds(reports.list), NoData, NoToast)
           ELSE /\ rlast' = RLast("handleVerifyAll", "declined",
                                  highConfidenceIds(reports.list), NoData, NoToast)
                /\ UNCHANGED <<verifyRequests, verifyPending>>
  /\ UNCHANGED <<reportsMounted, reportsGen, reports, reportsFetching, reportsError>>
  /\ UNCHANGED <<sessionOnlyVars, wizardVars, autoMapVars, importVars, selectVars>>

\* `Verification complete: ${data.confirmed_fraud} confirmed fraud,
\* ${data.not_fraud} cleared.`: the numbers the message carries
VerifySuccessToast(data) ==
  [kind |-> "success",
   shows |-> << [field |-> "confirmed_fraud", n |-> data.confirmed_fraud],
                [field |-> "not_fraud", n |-> data.not_fraud] >>]

\* the request settles for the instance that sent it: its isPending falls
SettledPending(req) ==
  IF req.gen = reportsGen THEN FALSE ELSE verifyPending

\* onSuccess of verifyMutation: toast, then invalidateQueries, which
\* re-fetches the query when the component is rendered
verifyMutation_onSuccess(i, data) ==
  /\ i \in 1..Len(verifyRequests)
  /\ verifyRequests' = RemoveAt(verifyRequests, i)
  /\ verifyPending' = SettledPending(verifyRequests[i])
  /\ reportsFetching' = (reportsFetching \/ reportsMounted)
  /\ rlast' = RLast("onSuccess", "ok", verifyRequests[i].match_ids, data,
                    VerifySuccessToast(data))
  /\ UNCHANGED <<reportsMounted, reportsGen, reports, reportsError>>
  /\ UNCHANGED <<sessionOnlyVars, wizardVars, autoMapVars, importVars, selectVars>>

\* onError of verifyMutation: toast only
verifyMutation_onError_Invalidate(i, kind) ==
  /\ i \in 1..Len(verifyRequests)
  /\ verifyRequests' = RemoveAt(verifyRequests, i)
  /\ verifyPending' = SettledPending(verifyRequests[i])
  /\ reportsFetching' = (reportsFetching \/ reportsMounted)
  /\ rlast' = RLast("onError", kind, verifyRequests[i].match_ids, NoData,
                    [kind |-> "error", shows |-> <<>>])
  /\ UNCHANGED <<reportsMounted, reportsGen, reports, reportsError>>
  /\ UNCHANGED <<sessionOnlyVars, wizardVars, autoMapVars, importVars, selectVars>>
verifyMutation_onError(i, kind) ==
  /\ i \in 1..Len(verifyRequests)
  /\ verifyRequests' = RemoveAt(verifyRequests, i)
  /\ verifyPending' = SettledPending(verifyRequests[i])
  /\ rlast' = RLast("onError", kind, verifyRequests[i].match_ids, NoData,
                    [kind |-> "error", shows |-> <<>>])
  /\ UNCHANGED <<reportsMounted, reportsGen, reports, reportsFetching, reportsError>>
  /\ UNCHANGED <<sessionOnlyVars, wizardVars, autoMapVars, importVars, selectVars>>

InitReports ==
  /\ SessionAfterLogin
  /\ WizardIdle
  /\ AutoMapIdle
  /\ OtherPagesIdle

NextReports ==
  \/ Reports_mount
  \/ Reports_unmount
  \/ \E list \in ReportLists : ReportsFetched(list)
  \/ \E kind \in ApiFailures : ReportsFetchFailed(kind)
  \/ \E id \in MatchIds : Reports_handleVerify(id)
  \/ \E answer \in BOOLEAN : Reports_handleVerifyAllHighConfidence(answer)
  \/ \E i \in 1..MaxVerifies, data \in VerificationResponses :
       verifyMutation_onSuccess(i, data)
  \/ \E i \in 1..MaxVerifies, kind \in ApiFailures : verifyMutation_onError(i, kind)

SpecReports == InitReports /\ [][NextReports]_vars

(***************************************************************************)
(* The high-confidence filter taken alone: handleVerifyAllHighConfidence   *)
(* computes highConfidenceIds from reports.                                *)
(***************************************************************************)
InitSelect ==
  /\ SessionAfterLogin
  /\ WizardIdle
  /\ AutoMapIdle
  /\ ReportsIdle
  /\ ImportIdle
  /\ selReports \in SelectLists
  /\ selResult = [calls |-> 0, picked |-> <<>>, ids |-> <<>>]

ApplySelect ==
  /\ selResult.calls < MaxCalls
  /\ selResult' = [calls |-> selResult.calls + 1,
                   picked |-> selectHighConfidencePending(selReports),
                   ids |-> highConfidenceIds(selReports)]
  /\ UNCHANGED selReports
  /\ UNCHANGED <<sessionVars, wizardVars, autoMapVars, reportsVars, importVars>>

NextSelect == ApplySelect

SpecSelect == InitSelect /\ [][NextSelect]_vars

(***************************************************************************)
(* The IntegrationsModal of the Upload page.  Upload renders it only while *)
(* isIntegrationsModalOpen, so its state starts afresh at every opening.   *)
(***************************************************************************)
\* the "Integrations" button of the Upload page
OpenIntegrations ==
  /\ UploadPageShown
  /\ ~isIntegrationsModalOpen
  /\ isIntegrationsModalOpen' = TRUE
  /\ selectedIntegration' = "null"
  /\ isImporting' = FALSE
  /\ UNCHANGED <<importPending, ilast>>
  /\ UNCHANGED <<sessionVars, wizardVars, autoMapVars, reportsVars, selectVars>>

\* an integration of the list is clicked (disabled while importing)
setSelectedIntegration(id) ==
  /\ isIntegrationsModalOpen
  /\ ~isImporting
  /\ selectedIntegration' = id
  /\ UNCHANGED <<isIntegrationsModalOpen, isImporting, importPending, ilast>>
  /\ UNCHANGED <<sessionVars, wizardVars, autoMapVars, reportsVars, selectVars>>

\* onClose of the close and Cancel buttons (disabled while importing)
onClose ==
  /\ isIntegrationsModalOpen
  /\ ~isImporting
  /\ isIntegrationsModalOpen' = FALSE
  /\ selectedIntegration' = "null"
  /\ UNCHANGED <<isImporting, importPending, ilast>>
  /\ UNCHANGED <<sessionVars, wizardVars, autoMapVars, reportsVars, selectVars>>

\* handleImport up to await api.post; the button is disabled without a
\* selection and while importing
handleImport ==
  /\ isIntegrationsModalOpen
  /\ selectedIntegration = "alto"
  /\ ~isImporting
  /\ isImporting' = TRUE
  /\ importPending' = TRUE
  /\ ilast' = ILast("handleImport", NoImportData, <<>>, FALSE)
  /\ UNCHANGED <<isIntegrationsModalOpen, selectedIntegration>>
  /\ UNCHANGED <<sessionVars, wizardVars, autoMapVars, reportsVars, selectVars>>

\* toast.success(data.message || `Successfully imported ${...} properties
\* from Alto`)
ImportSuccessToast(data) ==
  IF data.message # ""
    THEN ImportToast("success", data.message, -1)
    ELSE ImportToast("success", "Successfully imported properties from Alto",
                     data.properties_imported)
\* data.errors.forEach((error) => toast.error(error))
ImportErrorToasts(data) ==
  [k \in 1..Len(data.errors) |-> ImportToast("error", data.errors[k], -1)]

\* handleImport after the post resolved: the success toast, one error
\* toast per message, onSuccess() (Upload closes the modal), finally
ImportSuccess_ErrorsBlock(data) ==
  /\ importPending
  /\ importPending' = FALSE
  /\ isImporting' = FALSE
  /\ IF Len(data.errors) > 0
       THEN /\ ilast' = ILast("import_ok", data, ImportErrorToasts(data), FALSE)
            /\ UNCHANGED <<isIntegrationsModalOpen, selectedIntegration>>
       ELSE /\ ilast' = ILast("import_ok", data, <<ImportSuccessToast(data)>>, TRUE)
            /\ isIntegrationsModalOpen' = FALSE
            /\ selectedIntegration' = "null"
  /\ UNCHANGED <<sessionVars, wizardVars, autoMapVars, reportsVars, selectVars>>
ImportSuccess(data) ==
  /\ importPending
  /\ importPending' = FALSE
  /\ isImporting' = FALSE
  /\ ilast' = ILast("import_ok", data,
                    <<ImportSuccessToast(data)>> \o ImportErrorToasts(data), TRUE)
  /\ isIntegrationsModalOpen' = FALSE
  /\ selectedIntegration' = "null"
  /\ UNCHANGED <<sessionVars, wizardVars, autoMapVars, reportsVars, selectVars>>

\* handleImport after the post rejected: catch, finally
ImportFail(kind) ==
  /\ importPending
  /\ importPending' = FALSE
  /\ isImporting' = FALSE
  /\ ilast' = ILast("import_failed", NoImportData,
                    <<ImportToast("error", kind, -1)>>, FALSE)
  /\ UNCHANGED <<isIntegrationsModalOpen, selectedIntegration>>
  /\ UNCHANGED <<sessionVars, wizardVars, autoMapVars, reportsVars, selectVars>>

InitImport ==
  /\ SessionAfterLogin
  /\ WizardIdle
  /\ AutoMapIdle
  /\ OtherPagesIdle

NextImport ==
  \/ OpenIntegrations
  \/ setSelectedIntegration("alto")
  \/ onClose
  \/ handleImport
  \/ \E data \in ImportResponses : ImportSuccess(data)
  \/ \E kind \in ApiFailures : ImportFail(kind)

SpecImport == InitImport /\ [][NextImport]_vars

(***************************************************************************)
(* Vocabulary of the properties.                                           *)
(***************************************************************************)
\* the expiry claim of token t lies before the instant nowMs
ClaimInPast(t, nowMs) == t.exp # NoExp /\ t.exp * MsPerSec < nowMs
\* the mount effect found a token that decodes
RestoredJwt == pc = "mounted" /\ storedToken # NoToken /\ storedToken.ok
\* the session holds nothing: no user, no token in memory, no persisted token
Cleared == user = NoUser /\ token = NoToken /\ localStorage["token"] = NoToken
\* this step is the settlement of a GET /auth/me request
RefreshSettles == mePending > 0 /\ mePending' = mePending - 1

(***************************************************************************)
(* C1: in every reachable state, isAuthenticated is true only if the       *)
(* in-memory token is non-empty and the user's subject id is non-empty.    *)
(***************************************************************************)
C1_AuthenticatedHasTokenAndSubject ==
  isAuthenticated => (token # NoToken /\ user.sub # "")

(***************************************************************************)
(* C2: when a logout has completed (no token in memory or storage) while   *)
(* the profile request of restore is in flight, the later success of that  *)
(* request sets no user: the session stays unauthenticated with no token.  *)
(***************************************************************************)
C2_RefreshDiscardedAfterLogout ==
  [][ ( /\ RefreshSettles
        /\ token = NoToken
        /\ localStorage["token"] = NoToken
        /\ last'.op = "refresh_ok" )
      => (user' = NoUser /\ token' = NoToken) ]_vars

(***************************************************************************)
(* C3: when login(newToken, identity) happened while the profile request   *)
(* for the old stored token is in flight, the settlement of that request   *)
(* (failure or success) neither clears the new token from memory or        *)
(* storage nor overwrites the identity given to login.                     *)
(***************************************************************************)
C3_StaleRefreshIgnoredAfterLogin ==
  [][ ( /\ RefreshSettles
        /\ userFrom = "login"
        /\ token # storedToken )
      => (token' = token /\ user' = user /\ localStorage' = localStorage) ]_vars

(***************************************************************************)
(* C4: when the profile request issued by restore fails for any reason,    *)
(* the state after the failure has no user and no in-memory token and the  *)
(* persisted token is removed, whatever the expiry claim of the token.     *)
(***************************************************************************)
C4_RefreshFailureClears ==
  last.op = "refresh_fail" => Cleared

\* a server rejection of a token whose expiry claim lies in the future
C4_Witness ==
  /\ last.op = "refresh_fail"
  /\ last.arg = "AuthError"
  /\ storedToken.exp # NoExp
  /\ ~ClaimInPast(storedToken, now)
  /\ Cleared

(***************************************************************************)
(* C5: restore with a persisted token whose expiry claim is in the past    *)
(* ends unauthenticated, removes the persisted token and issues no profile *)
(* request.                                                                *)
(***************************************************************************)
C5_ExpiredRestoreClears ==
  (last.op = "restore" /\ RestoredJwt /\ ClaimInPast(storedToken, now))
    => (Cleared /\ meCalls = 0)

(***************************************************************************)
(* C6: restore with a persisted token that decodes and is not expired      *)
(* issues exactly one profile request, and never is more than one profile  *)
(* request in flight.                                                      *)
(***************************************************************************)
C6_ExactlyOneRefresh ==
  /\ mePending <= 1
  /\ (RestoredJwt /\ ~ClaimInPast(storedToken, now)) => meCalls = 1

\* the one request of a restore with an unexpired token is in flight
C6_Witness ==
  /\ RestoredJwt
  /\ storedToken.exp # NoExp
  /\ ~ClaimInPast(storedToken, now)
  /\ meCalls = 1
  /\ mePending = 1

(***************************************************************************)
(* C7: logout ends with the persisted token removed and token and user     *)
(* null, whether the server-side notification succeeds or fails, and the   *)
(* failure does not reach the caller (the returned promise is fulfilled).  *)
(***************************************************************************)
C7_LogoutAlwaysClears ==
  last.op = "logout_done" => (Cleared /\ last.arg.settled = "fulfilled")

\* a logout whose notification failed, from an authenticated session
C7_Witness ==
  /\ last.op = "logout_done"
  /\ last.arg.outcome = "NetworkError"
  /\ Cleared

(***************************************************************************)
(* C8: login(token, identity) persists the token under the key 'token' and *)
(* makes the session authenticated with exactly the given identity in the  *)
(* same step, and the step issues no request to the remote service.        *)
(***************************************************************************)
C8_LoginImmediate ==
  [][ last'.op = "login"
      => ( /\ localStorage'["token"] = last'.arg.token
           /\ localStorage'["other"] = localStorage["other"]
           /\ token' = last'.arg.token
           /\ user' = last'.arg.user
           /\ isAuthenticated'
           /\ UNCHANGED <<mePending, meCalls, logoutPending, verifyPending>> ) ]_vars

\* a login made while the profile request of restore is still in flight
C8_Witness ==
  /\ last.op = "login"
  /\ mePending = 1
  /\ user = last.arg.user
  /\ localStorage["token"] = last.arg.token

(***************************************************************************)
(* C9 as stated: from the local decode until the profile request succeeds  *)
(* the session is not authenticated, and on success the identity is the    *)
(* one the server returned.                                                *)
(***************************************************************************)
C9_Original ==
  /\ userFrom = "decode" => ~isAuthenticated
  /\ last.op = "refresh_ok" => user = ProfileUser(last.arg)

(***************************************************************************)
(* C9 amended: the decoded identity makes isAuthenticated true at once,    *)
(* but only while isLoading is true and the profile request is in flight;  *)
(* ProtectedRoute renders protected content only when isLoading is false,  *)
(* and then the identity is never the decoded one; on success the identity *)
(* is the one the server returned.                                         *)
(***************************************************************************)
C9_DecodedIdentityNeverRouted ==
  /\ userFrom = "decode" => (isAuthenticated /\ isLoading /\ mePending > 0)
  /\ ProtectedRoute = "outlet" => userFrom # "decode"
  /\ last.op = "refresh_ok" => (user = ProfileUser(last.arg) /\ userFrom = "me")

\* protected content shown after the server confirmed the restored token
C9_Witness ==
  /\ last.op = "refresh_ok"
  /\ token = storedToken
  /\ ProtectedRoute = "outlet"
  /\ user # DecodedUser(jwtDecode(storedToken))

(***************************************************************************)
(* C10: an AuthError returned by an authenticated call other than the      *)
(* profile request of restore clears the credentials: the persisted token  *)
(* is removed and the session is unauthenticated.                          *)
(***************************************************************************)
C10_AuthErrorClearsSession ==
  (last.op = "verify_settled" /\ last.arg = "AuthError")
    => (localStorage["token"] = NoToken /\ ~isAuthenticated /\ token = NoToken)

(***************************************************************************)
(* Vocabulary of the properties of the auto-mapping.                       *)
(***************************************************************************)
\* the least element of a non-empty set of indices
MinOf(S) == CHOOSE i \in S : \A j \in S : i <= j
\* positions of H whose lowercase form equals K, resp. contains K
ExactAt(H, K) == { i \in 1..Len(H) : toLowerCase(H[i]) = K }
ContainsAt(H, K) == { i \in 1..Len(H) : includes(toLowerCase(H[i]), K) }
\* the header the two-tier rule selects for K: exact match first
ExactFirst(H, K) ==
  IF ExactAt(H, K) # {} THEN H[MinOf(ExactAt(H, K))]
  ELSE IF ContainsAt(H, K) # {} THEN H[MinOf(ContainsAt(H, K))]
  ELSE Undefined

(***************************************************************************)
(* C17: for every header list H and canonical key K, auto-mapping assigns  *)
(* K the first header of H whose lowercase form equals K if there is one   *)
(* anywhere in H, otherwise the first header whose lowercase form contains *)
(* K, otherwise K is left unset.                                           *)
(***************************************************************************)
C17_AutoMapExactFirst ==
  amResult.done => \A K \in FieldKeys : amResult.map[K] = ExactFirst(amH, K)

(***************************************************************************)
(* C18 as stated: for the header list Addr, PostCode, Client, Status,      *)
(* Withdrawn the auto-mapping resolves all five keys: address to Addr,     *)
(* postcode to PostCode, client_name to Client, status to Status and       *)
(* withdrawn_date to Withdrawn.                                            *)
(***************************************************************************)
C18_Original ==
  (amResult.done /\ amH = ScenarioHeaders)
    => /\ amResult.map[S_address] = S_Addr
       /\ amResult.map[S_postcode] = S_PostCode
       /\ amResult.map[S_client_name] = S_Client
       /\ amResult.map[S_status] = S_Status
       /\ amResult.map[S_withdrawn_date] = S_Withdrawn

(***************************************************************************)
(* C18 amended: for that header list the auto-mapping resolves only the    *)
(* keys that a header contains: postcode to PostCode and status to Status; *)
(* address, client_name and withdrawn_date are left unset, because Addr,   *)
(* Client and Withdrawn do not contain their keys.                         *)
(***************************************************************************)
C18_ScenarioMapsTwoKeys ==
  (amResult.done /\ amH = ScenarioHeaders)
    => /\ amResult.map[S_address] = Undefined
       /\ amResult.map[S_postcode] = S_PostCode
       /\ amResult.map[S_client_name] = Undefined
       /\ amResult.map[S_status] = S_Status
       /\ amResult.map[S_withdrawn_date] = Undefined

\* the auto-mapping has run on the header list of the scenario
C18_Witness ==
  /\ amResult.done
  /\ amH = ScenarioHeaders
  /\ amResult.map[S_postcode] = S_PostCode

(***************************************************************************)
(* Vocabulary of the properties of the upload wizard.                      *)
(***************************************************************************)
\* the state of the ingestion pipeline in the words of the specification
PipelineState ==
  CASE step = "upload" /\ file = NoFile -> "Idle"
    [] step = "upload" /\ file # NoFile -> "HasFile"
    [] step = "mapping" -> "Mapping"
    [] step = "uploading" -> "Submitting"
    [] step = "success" -> "Succeeded"
\* every canonical key is mapped to a non-empty header
AllMapped(m) == \A k \in FieldKeys : m[k] # Undefined /\ m[k] # EmptyStr
\* the labels of the keys that are unmapped in m
UnmappedLabels(m) ==
  { REQUIRED_FIELDS[i].label :
      i \in { j \in 1..Len(REQUIRED_FIELDS) :
                m[REQUIRED_FIELDS[j].key] \in {Undefined, EmptyStr} } }
\* this step sends an upload request
UploadSent == Len(uploads') = Len(uploads) + 1
\* nothing of the wizard is held
Discarded ==
  /\ step = "upload"
  /\ file = NoFile
  /\ headers = <<>>
  /\ mapping = EmptyMapping
  /\ uploadStats = NoStats
\* the step changes the specification allows apart from reset
AllowedEdges ==
  { <<"Idle", "HasFile">>, <<"HasFile", "Mapping">>, <<"Mapping", "Submitting">>,
    <<"Submitting", "Succeeded">>, <<"Submitting", "Mapping">> }

(***************************************************************************)
(* C11: submit never moves the pipeline to Submitting, and sends no upload *)
(* request, while a canonical key is unmapped or mapped to the empty       *)
(* string; and whenever submit is invoked in Mapping with all five keys    *)
(* mapped to non-empty headers, it moves to Submitting and sends the       *)
(* request with the file and the mapping.                                  *)
(***************************************************************************)
C11_SubmitIffAllMapped ==
  [][ /\ ((step' = "uploading" /\ step # "uploading") \/ UploadSent)
         => (step = "mapping" /\ AllMapped(mapping))
      /\ (wlast'.op = "handleUpload" /\ AllMapped(mapping))
         => /\ step' = "uploading"
            /\ UploadSent
            /\ uploads'[Len(uploads')] = [file |-> file, field_mapping |-> mapping]
      /\ (wlast'.op = "handleUpload" /\ ~AllMapped(mapping))
         => (step' = step /\ uploads' = uploads) ]_vars

\* a submission of listings.csv after the user mapped the remaining key
C11_Witness ==
  /\ wlast.op = "handleUpload"
  /\ wlast.arg = "submitted"
  /\ step = "uploading"
  /\ Len(uploads) = 1
  /\ uploads[1].field_mapping[S_withdrawn_date] = S_Date

(***************************************************************************)
(* C12: when submit is invoked with some canonical keys unmapped, it fails *)
(* with a validation message that lists exactly the labels of the unmapped *)
(* keys, and step, file, headers and mapping are left unchanged.           *)
(***************************************************************************)
C12_ValidationListsMissingLabels ==
  [][ (wlast'.op = "handleUpload" /\ ~AllMapped(mapping))
      => /\ wlast'.arg = "invalid"
         /\ { wlast'.toast[i] : i \in 1..Len(wlast'.toast) } = UnmappedLabels(mapping)
         /\ Len(wlast'.toast) = Cardinality(UnmappedLabels(mapping))
         /\ UNCHANGED <<step, file, headers, mapping>> ]_vars

\* the scenario of the specification: only postcode is missing
C12_Witness ==
  /\ wlast.op = "handleUpload"
  /\ wlast.arg = "invalid"
  /\ wlast.toast = <<"Postcode">>
  /\ step = "mapping"

(***************************************************************************)
(* C13: a failed submission returns the pipeline to Mapping with the same  *)
(* file and the same mapping it had when submit was invoked, under every   *)
(* interleaving of user actions with the request in flight.                *)
(***************************************************************************)
C13_FailureKeepsFileAndMapping ==
  [][ \A i \in 1..MaxUploads, kind \in ApiFailures :
        UploadFail(i, kind)
        => /\ step' = "mapping"
           /\ file' = uploads[i].file
           /\ mapping' = uploads[i].field_mapping ]_vars

(***************************************************************************)
(* C14: apart from reset, every change of the pipeline's state is one of   *)
(* Idle to HasFile, HasFile to Mapping, Mapping to Submitting, Submitting  *)
(* to Succeeded or Submitting to Mapping.                                  *)
(***************************************************************************)
C14_OnlyForwardEdges ==
  [][ (PipelineState' # PipelineState /\ wlast'.op \notin {"reset", "close_modal"})
      => <<PipelineState, PipelineState'>> \in AllowedEdges ]_vars

(***************************************************************************)
(* C15: at most one listing-upload request is in flight at any time.       *)
(***************************************************************************)
C15_OneUploadInFlight == Len(uploads) <= 1

(***************************************************************************)
(* C16: reset is available in every state of the pipeline (whenever the    *)
(* wizard is shown, its close button resets), and a reset always results   *)
(* in Idle with file, headers, mapping and statistics discarded.           *)
(***************************************************************************)
C16_ResetDiscardsEverything ==
  /\ wlast.op \in {"reset", "close_modal"} => Discarded
  /\ (UploadPageShown /\ isModalOpen) => ENABLED handleCloseModal

\* a reset made while an upload request is in flight
C16_Witness ==
  /\ wlast.op = "close_modal"
  /\ wlast.arg = "uploading"
  /\ Len(uploads) = 1
  /\ Discarded

(***************************************************************************)
(* C19: setMapping(key, header) is possible only in Mapping and changes    *)
(* the mapping of that one key only: the other keys, the file, the headers *)
(* and the step are unchanged and the auto-mapping is not run again.       *)
(***************************************************************************)
C19_EditChangesOneKey ==
  [][ wlast'.op = "handleMappingChange"
      => /\ step = "mapping"
         /\ UNCHANGED <<step, file, headers>>
         /\ \E k \in FieldKeys :
              \A other \in FieldKeys \ {k} : mapping'[other] = mapping[other] ]_vars

\* the user cleared postcode; the auto-mapped keys stay and postcode is not
\* mapped again by the heuristic
C19_Witness ==
  /\ wlast.op = "handleMappingChange"
  /\ mapping[S_postcode] = EmptyStr
  /\ mapping[S_address] = S_address
  /\ mapping # AutoMap(headers)

(***************************************************************************)
(* C20: a file is accepted only in Idle or HasFile, and a file from which  *)
(* no header row can be derived is rejected: its parse changes neither     *)
(* headers nor mapping nor step, and the pipeline is never in Mapping with *)
(* such a file.                                                            *)
(***************************************************************************)
C20_UnparseableFileNeverMapped ==
  [][ /\ wlast'.op = "onDrop" => PipelineState \in {"Idle", "HasFile"}
      /\ wlast'.op = "parse_no_fields" => UNCHANGED <<headers, mapping, step>>
      /\ (step' = "mapping" /\ file' # NoFile) => file'.hasFields ]_vars

(***************************************************************************)
(* Properties of the Reports page.                                         *)
(***************************************************************************)
\* C21: a verification request never carries an empty list of match ids:
\* every request in flight has at least one id, and the bulk handler that
\* finds no high-confidence suspicious report sends nothing.
C21_VerifyNeverEmpty ==
  [][ /\ \A i \in 1..Len(verifyRequests') : Len(verifyRequests'[i].match_ids) >= 1
      /\ (rlast'.op = "handleVerifyAll" /\ highConfidenceIds(reports.list) = <<>>)
           => verifyRequests' = verifyRequests ]_vars

\* the bulk handler ran on a loaded, non-empty list without a
\* high-confidence suspicious report and returned without a request
C21_Witness ==
  /\ rlast.op = "handleVerifyAll"
  /\ rlast.outcome = "none_found"
  /\ Len(reports.list) > 0
  /\ verifyRequests = <<>>

\* the positions of a list whose report is suspicious with a score of at
\* least the threshold
Matching(L) ==
  { i \in 1..Len(L) : L[i].verification_status = "suspicious"
                      /\ L[i].confidence_score >= HighConfidence }
\* the k-th such position
KthMatch(L, k) ==
  CHOOSE i \in Matching(L) : Cardinality({ j \in Matching(L) : j <= i }) = k

\* C22: the high-confidence selection returns exactly the suspicious
\* reports with a score of at least 0.85, in list order (and their ids in
\* the same order); the input list is left as it was, and a second call on
\* the same list gives the same output.
C22_SelectExactlyHighConfidencePending ==
  [][ selResult'.calls >= 1 =>
        /\ Len(selResult'.picked) = Cardinality(Matching(selReports))
        /\ \A k \in 1..Len(selResult'.picked) :
             selResult'.picked[k] = selReports[KthMatch(selReports, k)]
        /\ Len(selResult'.ids) = Len(selResult'.picked)
        /\ \A k \in 1..Len(selResult'.picked) :
             selResult'.ids[k] = selResult'.picked[k].id
        /\ selReports' = selReports
        /\ selResult.calls >= 1 => selResult'.picked = selResult.picked ]_vars

\* the filter ran twice on a list of two reports, dropped the first (score
\* below the threshold) and kept the second (score exactly the threshold)
C22_Witness ==
  /\ selResult.calls = 2
  /\ Len(selReports) = 2
  /\ selReports[1].confidence_score = HighConfidence - 1
  /\ selReports[1].verification_status = "suspicious"
  /\ Len(selResult.picked) = 1
  /\ selResult.picked[1].confidence_score = HighConfidence

\* the counts of a VerificationResponse
CountFields == {"confirmed_fraud", "not_fraud", "errors"}

\* C23: when verify succeeds with counts {confirmed_fraud, not_fraud,
\* errors}, the success message carries all three numbers, no report of the
\* list is changed, and the list is re-fetched (when the page is rendered).
C23_SuccessReportsAllCounts ==
  [][ rlast'.op = "onSuccess" =>
        /\ \A f \in CountFields :
             \E k \in 1..Len(rlast'.toast.shows) :
               /\ rlast'.toast.shows[k].field = f
               /\ rlast'.toast.shows[k].n = rlast'.data[f]
        /\ reports' = reports
        /\ reportsMounted => reportsFetching' ]_vars

\* C24: when a verification request fails, the report list is untouched,
\* no re-fetch is started, no counts are shown; only an error toast appears.
C24_FailureLeavesReports ==
  [][ rlast'.op = "onError" =>
        /\ reports' = reports
        /\ reportsFetching' = reportsFetching
        /\ reportsError' = reportsError
        /\ rlast'.data = NoData
        /\ rlast'.toast = [kind |-> "error", shows |-> <<>>] ]_vars

\* a verification request failed while the rendered page held a loaded,
\* non-empty list and no fetch was in flight
C24_Witness ==
  /\ rlast.op = "onError"
  /\ reportsMounted
  /\ reports.loaded
  /\ Len(reports.list) > 0
  /\ ~reportsFetching

\* C25: at most one batch-verify request is outstanding at a time.
C25_OneVerifyOutstanding == Len(verifyRequests) <= 1

(***************************************************************************)
(* Properties of the IntegrationsModal.                                    *)
(***************************************************************************)
\* C26: when the import call succeeds, a success toast is shown, every
\* message of data.errors is shown as a toast of its own, and onSuccess is
\* called however many messages there are; when the call settles, with
\* success or failure, isImporting is false again.
C26_ImportSurfacesEveryError ==
  [][ (importPending /\ ~importPending') =>
        /\ ~isImporting'
        /\ ilast'.op = "import_ok" =>
             /\ ilast'.onSuccess
             /\ ~isIntegrationsModalOpen'
             /\ Len(ilast'.toasts) = 1 + Len(ilast'.data.errors)
             /\ ilast'.toasts[1].kind = "success"
             /\ \A k \in 1..Len(ilast'.data.errors) :
                  ilast'.toasts[1 + k] =
                    ImportToast("error", ilast'.data.errors[k], -1) ]_vars

\* an import succeeded with two per-record messages
C26_Witness ==
  /\ ilast.op = "import_ok"
  /\ Len(ilast.data.errors) = 2
  /\ ilast.data.errors[1] # ilast.data.errors[2]
  /\ ilast.onSuccess
  /\ ~isImporting

(***************************************************************************)
(* Properties of the upload wizard under late completions.                 *)
(***************************************************************************)
\* C27: once reset has discarded everything, the wizard stays Idle with no
\* file, headers, mapping or statistics until a file is accepted: no
\* completion of a parse or of an upload that was in flight changes that.
C27_NothingHeldUntilNextFile ==
  [][ (Discarded /\ wlast'.op # "onDrop") => Discarded' ]_vars

\* C28: in every reachable state, step mapping or uploading implies a file
\* is held, and step success implies upload statistics are held.
C28_StepHasItsData ==
  /\ step \in {"mapping", "uploading"} => file # NoFile
  /\ step = "success" => uploadStats # NoStats

(***************************************************************************)
(* Further properties of the session store.                                *)
(***************************************************************************)
\* C29: in every reachable state, an in-memory token that is not null
\* equals the item stored under 'token'.
C29_TokenEqualsPersisted ==
  token # NoToken => token = localStorage["token"]

\* a login replaced a restored token: memory and storage hold the new one
C29_Witness ==
  /\ last.op = "login"
  /\ storedToken # NoToken
  /\ token # storedToken
  /\ token # NoToken
  /\ localStorage["token"] = token

\* C30: on every restore path the loading flag eventually becomes false
\* (the profile request settling), it never becomes true again, and the
\* protected route shows its content or redirects only when it is false.
C30_LoadingEnds ==
  /\ <>[](~isLoading)
  /\ [][~isLoading => ~isLoading']_vars
  /\ [](ProtectedRoute \in {"outlet", "navigate_login"} => ~isLoading)

\* the optimistic path ended: one profile request was issued, it has
\* settled with a rejection and loading is over
C30_Witness ==
  /\ ~isLoading
  /\ meCalls = 1
  /\ mePending = 0
  /\ last.op = "refresh_fail"

====
